---------------------------- MODULE Spec2Model ----------------------------
(***************************************************************************)
(* Model of nanobot's configuration loader (nanobot/config/loader.py) and  *)
(* of the BigQuery tool (nanobot/agent/tools/bigquery.py).                 *)
(*                                                                         *)
(* Text is modelled as a sequence of one-character strings, so that the    *)
(* key-case conversions, the comma splitting and the trimming act on       *)
(* characters as the Python code does.                                     *)
(***************************************************************************)
EXTENDS Integers, Sequences, FiniteSets, TLC

(***************************************************************************)
(* Bounds of the model                                                     *)
(***************************************************************************)
\* longest key examined by the key-case round trip
MaxKeyLen == 4

\* most override variables set at once in the override runs
MaxEnvVars == 2

\* most override variables set at once when a saved Config is loaded back
MaxSaveEnvVars == 1

\* most calls of BigQueryTool.execute on one tool object
MaxCalls == 2

(***************************************************************************)
(* Characters: str.isupper, str.lower, str.upper on ASCII                  *)
(***************************************************************************)
LowerChars ==
  << "a","b","c","d","e","f","g","h","i","j","k","l","m",
     "n","o","p","q","r","s","t","u","v","w","x","y","z" >>

UpperChars ==
  << "A","B","C","D","E","F","G","H","I","J","K","L","M",
     "N","O","P","Q","R","S","T","U","V","W","X","Y","Z" >>

IsUpper(c) == \E i \in DOMAIN UpperChars : UpperChars[i] = c

IsLower(c) == \E i \in DOMAIN LowerChars : LowerChars[i] = c

IsCased(c) == IsUpper(c) \/ IsLower(c)

ToLower(c) ==
  IF IsUpper(c)
    THEN LowerChars[CHOOSE i \in DOMAIN UpperChars : UpperChars[i] = c]
    ELSE c

ToUpper(c) ==
  IF IsLower(c)
    THEN UpperChars[CHOOSE i \in DOMAIN LowerChars : LowerChars[i] = c]
    ELSE c

\* str.lower() of a whole text
RECURSIVE Lower(_)
Lower(s) == IF s = << >> THEN << >> ELSE << ToLower(Head(s)) >> \o Lower(Tail(s))

\* str.title(): a cased character is uppercased when the character before it
\* is not cased (or there is none), and lowercased otherwise
RECURSIVE TitleFrom(_, _)
TitleFrom(s, prevCased) ==
  IF s = << >> THEN << >>
  ELSE << (IF prevCased THEN ToLower(Head(s)) ELSE ToUpper(Head(s))) >>
         \o TitleFrom(Tail(s), IsCased(Head(s)))

Title(s) == TitleFrom(s, FALSE)

\* str.split(sep): the segments between the separators, empty ones kept
RECURSIVE SplitAcc(_, _, _)
SplitAcc(s, sep, cur) ==
  IF s = << >> THEN << cur >>
  ELSE IF Head(s) = sep THEN << cur >> \o SplitAcc(Tail(s), sep, << >>)
  ELSE SplitAcc(Tail(s), sep, Append(cur, Head(s)))

Split(s, sep) == SplitAcc(s, sep, << >>)

\* "".join(parts)
RECURSIVE Join(_)
Join(parts) == IF parts = << >> THEN << >> ELSE Head(parts) \o Join(Tail(parts))

(***************************************************************************)
(* Key-case conversion                                                     *)
(***************************************************************************)
\* a slip: the separator is never inserted
camel_to_snake_nosep(name) == Lower(name)

\* a slip: the components are joined as they are
snake_to_camel_plain(name) == Join(Split(name, "_"))

\* loader.py camel_to_snake: "_" before every uppercase character that is not
\* the first, every character lowercased
camel_to_snake(name) ==
  Join([i \in 1..Len(name) |->
          IF IsUpper(name[i]) /\ i > 1
            THEN << "_", ToLower(name[i]) >>
            ELSE << ToLower(name[i]) >>])

\* loader.py snake_to_camel: first component verbatim, the others title-cased
snake_to_camel(name) ==
  LET components == Split(name, "_")
  IN  Head(components)
        \o Join([i \in 1..(Len(components) - 1) |-> Title(components[i + 1])])

(***************************************************************************)
(* JSON values: what json.loads returns and json.dump accepts.  A value is *)
(* a record [t, v]: t the Python type, v the payload (for a dict, a        *)
(* function from keys to values; for text, its characters).                *)
(***************************************************************************)
JObj(f) == [t |-> "object", v |-> f]

JList(s) == [t |-> "array", v |-> s]

JStr(s) == [t |-> "string", v |-> s]

JNum(n) == [t |-> "number", v |-> n]

JBool(b) == [t |-> "bool", v |-> b]

JNull == [t |-> "null", v |-> 0]

\* {} of Python
EmptyDict == JObj(<< >>)

\* marks an optional member left out when a document is built
Absent == [t |-> "absent", v |-> 0]

\* the dict with the given <<key, value>> members, the Absent ones left out
MkObj(pairs) ==
  LET present == {p \in pairs : p[2] # Absent}
  IN  JObj([key \in {p[1] : p \in present} |->
              (CHOOSE p \in present : p[1] = key)[2]])

\* d.get(key, default)
DictGet(d, key, default) == IF key \in DOMAIN d.v THEN d.v[key] ELSE default

\* d[key] = val
DictSet(d, key, val) ==
  JObj([x \in (DOMAIN d.v) \cup {key} |-> IF x = key THEN val ELSE d.v[x]])

\* del d[key]
DictDel(d, key) == JObj([x \in (DOMAIN d.v) \ {key} |-> d.v[x]])

\* wire (camelCase) keys of the persisted document
K_tools == << "t","o","o","l","s" >>

K_exec == << "e","x","e","c" >>

K_restrictToWorkspace ==
  << "r","e","s","t","r","i","c","t","T","o","W","o","r","k","s","p","a","c","e" >>

K_timeout == << "t","i","m","e","o","u","t" >>

K_channels == << "c","h","a","n","n","e","l","s" >>

(***************************************************************************)
(* _migrate_config                                                         *)
(***************************************************************************)
\* an operation's result: the exception that escaped it ("none": it returned)
\* and the value it returned
Returned(val) == [exc |-> "none", val |-> val]

Raised(e) == [exc |-> e, val |-> JNull]

\* whether needle occurs in text (Python's `in` on two str)
IsSubstring(needle, text) ==
  \E i \in 0..(Len(text) - Len(needle)) :
    \A j \in 1..Len(needle) : text[i + j] = needle[j]

\* whether `key in x` raises TypeError: x is not a container
NotIterable(x) == x.t \in {"number", "bool", "null"}

\* `key in x` for a dict (its keys), a list (its elements), a str (substring)
Contains(x, key) ==
  CASE x.t = "object" -> key \in DOMAIN x.v
    [] x.t = "array" -> \E i \in DOMAIN x.v : x.v[i] = JStr(key)
    [] x.t = "string" -> IsSubstring(key, x.v)
    [] OTHER -> FALSE

\* loader.py _migrate_config: data.get, tools.get, the membership tests and the
\* pop, each with the exception it raises on a value of another type
_migrate_config(data) ==
  IF data.t # "object" THEN Raised("AttributeError")
  ELSE LET tools == DictGet(data, K_tools, EmptyDict)
       IN  IF tools.t # "object" THEN Raised("AttributeError")
           ELSE LET exec_cfg == DictGet(tools, K_exec, EmptyDict)
                IN  IF NotIterable(exec_cfg) THEN Raised("TypeError")
                    ELSE IF /\ Contains(exec_cfg, K_restrictToWorkspace)
                            /\ K_restrictToWorkspace \notin DOMAIN tools.v
                           THEN CASE exec_cfg.t = "object" ->
                                       Returned(DictSet(data, K_tools,
                                         DictSet(
                                           DictSet(tools, K_exec,
                                                   DictDel(exec_cfg, K_restrictToWorkspace)),
                                           K_restrictToWorkspace,
                                           exec_cfg.v[K_restrictToWorkspace])))
                                  [] exec_cfg.t = "array" -> Raised("TypeError")
                                  [] OTHER -> Raised("AttributeError")
                           ELSE Returned(data)

\* keys spelled alike in the wire and the internal convention
K_providers == << "p","r","o","v","i","d","e","r","s" >>

K_groq == << "g","r","o","q" >>

K_openrouter == << "o","p","e","n","r","o","u","t","e","r" >>

K_openai == << "o","p","e","n","a","i" >>

K_anthropic == << "a","n","t","h","r","o","p","i","c" >>

K_deepseek == << "d","e","e","p","s","e","e","k" >>

K_gemini == << "g","e","m","i","n","i" >>

K_zhipu == << "z","h","i","p","u" >>

K_agents == << "a","g","e","n","t","s" >>

K_defaults == << "d","e","f","a","u","l","t","s" >>

K_model == << "m","o","d","e","l" >>

K_workspace == << "w","o","r","k","s","p","a","c","e" >>

K_telegram == << "t","e","l","e","g","r","a","m" >>

K_whatsapp == << "w","h","a","t","s","a","p","p" >>

K_enabled == << "e","n","a","b","l","e","d" >>

K_token == << "t","o","k","e","n" >>

K_web == << "w","e","b" >>

K_search == << "s","e","a","r","c","h" >>

K_apiKey == << "a","p","i","K","e","y" >>

K_allowFrom == << "a","l","l","o","w","F","r","o","m" >>

\* internal (snake_case) keys of the Config fields
S_api_key == << "a","p","i","_","k","e","y" >>

S_allow_from == << "a","l","l","o","w","_","f","r","o","m" >>

S_restrict_to_workspace == << "r","e","s","t","r","i","c","t","_","t","o","_","w","o","r","k","s","p","a","c","e" >>

(***************************************************************************)
(* convert_keys, convert_to_camel                                          *)
(***************************************************************************)
\* loader.py convert_keys: every dict key through camel_to_snake, recursively
\* through dicts and lists.  (Two keys of one dict that convert to the same
\* key keep one value; the documents examined hold no such pair.)
RECURSIVE convert_keys(_)
convert_keys(d) ==
  CASE d.t = "object" ->
         JObj([x \in {camel_to_snake(key) : key \in DOMAIN d.v} |->
                 convert_keys(d.v[CHOOSE key \in DOMAIN d.v : camel_to_snake(key) = x])])
    [] d.t = "array" -> JList([i \in DOMAIN d.v |-> convert_keys(d.v[i])])
    [] OTHER -> d

\* loader.py convert_to_camel: every dict key through snake_to_camel
RECURSIVE convert_to_camel(_)
convert_to_camel(d) ==
  CASE d.t = "object" ->
         JObj([x \in {snake_to_camel(key) : key \in DOMAIN d.v} |->
                 convert_to_camel(d.v[CHOOSE key \in DOMAIN d.v : snake_to_camel(key) = x])])
    [] d.t = "array" -> JList([i \in DOMAIN d.v |-> convert_to_camel(d.v[i])])
    [] OTHER -> d

(***************************************************************************)
(* The Config schema (nanobot.config.schema).  A Config is held as the     *)
(* tree of its fields under their internal names, which is also what       *)
(* model_dump returns.                                                     *)
(***************************************************************************)
NoText == << >>

Provider(api_key) == MkObj({<< S_api_key, JStr(api_key) >>})

\* Config(): every field at its default
DefaultConfig ==
  MkObj({
    << K_providers,
       MkObj({<< K_groq, Provider(NoText) >>, << K_openrouter, Provider(NoText) >>,
              << K_openai, Provider(NoText) >>, << K_anthropic, Provider(NoText) >>,
              << K_deepseek, Provider(NoText) >>, << K_gemini, Provider(NoText) >>,
              << K_zhipu, Provider(NoText) >>}) >>,
    << K_agents,
       MkObj({<< K_defaults,
                 MkObj({<< K_model, JStr(<< "m","0" >>) >>,
                        << K_workspace, JStr(<< "w","0" >>) >>}) >>}) >>,
    << K_channels,
       MkObj({<< K_telegram,
                 MkObj({<< K_enabled, JBool(FALSE) >>, << K_token, JStr(NoText) >>,
                        << S_allow_from, JList(<< >>) >>}) >>,
              << K_whatsapp,
                 MkObj({<< K_enabled, JBool(FALSE) >>,
                        << S_allow_from, JList(<< >>) >>}) >>}) >>,
    << K_tools,
       MkObj({<< K_web, MkObj({<< K_search, Provider(NoText) >>}) >>,
              << K_exec, MkObj({<< K_timeout, JNum(60) >>}) >>,
              << S_restrict_to_workspace, JBool(FALSE) >>}) >>})

\* whether a normalized document has the shape of the schema: a section is an
\* object, a field has its type, a list holds text; unknown keys are ignored
RECURSIVE Conforms(_, _)
Conforms(schema, doc) ==
  CASE schema.t = "object" ->
         /\ doc.t = "object"
         /\ \A key \in (DOMAIN schema.v) \cap (DOMAIN doc.v) :
              Conforms(schema.v[key], doc.v[key])
    [] schema.t = "array" ->
         /\ doc.t = "array"
         /\ \A i \in DOMAIN doc.v : doc.v[i].t = "string"
    [] OTHER -> doc.t = schema.t

\* the Config of a conforming document: its known fields, defaults for the
\* absent ones, unknown keys dropped
RECURSIVE Materialize(_, _)
Materialize(schema, doc) ==
  IF schema.t = "object"
    THEN JObj([key \in DOMAIN schema.v |->
                 IF key \in DOMAIN doc.v
                   THEN Materialize(schema.v[key], doc.v[key])
                   ELSE schema.v[key]])
    ELSE doc

\* Config.model_validate: the Config, or ValidationError (a ValueError)
model_validate(doc) ==
  IF Conforms(DefaultConfig, doc)
    THEN Returned(Materialize(DefaultConfig, doc))
    ELSE Raised("ValidationError")

\* config.model_dump(): every field, defaulted ones included
model_dump(config) == config

\* config.a.b.c
RECURSIVE GetPath(_, _)
GetPath(cfg, path) ==
  IF path = << >> THEN cfg ELSE GetPath(cfg.v[Head(path)], Tail(path))

\* config.a.b.c = val
RECURSIVE SetPath(_, _, _)
SetPath(cfg, path, val) ==
  IF path = << >> THEN val
  ELSE DictSet(cfg, Head(path), SetPath(cfg.v[Head(path)], Tail(path), val))

ProviderKey(p) == << K_providers, p, S_api_key >>

TelegramToken == << K_channels, K_telegram, K_token >>

TelegramAllowFrom == << K_channels, K_telegram, S_allow_from >>

WhatsappAllowFrom == << K_channels, K_whatsapp, S_allow_from >>

ChannelEnabled(c) == << K_channels, c, K_enabled >>

AgentModel == << K_agents, K_defaults, K_model >>

AgentWorkspace == << K_agents, K_defaults, K_workspace >>

WebSearchKey == << K_tools, K_web, K_search, S_api_key >>

(***************************************************************************)
(* _apply_env_overrides                                                    *)
(***************************************************************************)
\* os.environ.get(n), with None (unset) read as the empty text: every use
\* below only asks whether the value is truthy, or compares its lower()
Getenv(env, n) == IF n \in DOMAIN env THEN env[n] ELSE NoText

\* Python's `a or b` on text
Or(a, b) == IF a # NoText THEN a ELSE b

Whitespace == {" ", "\t"}

\* str.strip()
RECURSIVE LStrip(_)
LStrip(s) == IF s # << >> /\ Head(s) \in Whitespace THEN LStrip(Tail(s)) ELSE s

RECURSIVE RStrip(_)
RStrip(s) ==
  IF s # << >> /\ s[Len(s)] \in Whitespace THEN RStrip(SubSeq(s, 1, Len(s) - 1)) ELSE s

Strip(s) == RStrip(LStrip(s))

\* [u.strip() for u in text.split(",")]
SplitStrip(text) ==
  LET parts == Split(text, ",") IN [i \in DOMAIN parts |-> Strip(parts[i])]

\* the same, as a list of JSON text
StrippedList(text) ==
  LET parts == SplitStrip(text) IN JList([i \in DOMAIN parts |-> JStr(parts[i])])

\* [c.strip().lower() for c in text.split(",")]
LoweredNames(text) ==
  LET parts == Split(text, ",") IN [i \in DOMAIN parts |-> Lower(Strip(parts[i]))]

\* names every Python object answers hasattr for, whatever its fields
ObjectAttributes == {<< "_","_","i","n","i","t","_","_" >>, << "_","_","e","q","_","_" >>}

\* hasattr(config.channels, c)
hasattr_channels(config, c) ==
  c \in DOMAIN config.v[K_channels].v \/ c \in ObjectAttributes

\* loader.py lines 124-126: the loop over the listed names; a name that is an
\* attribute but no section yields an object without `enabled`, and the
\* assignment raises AttributeError
RECURSIVE EnableChannels(_, _)
EnableChannels(config, enabled_list) ==
  IF enabled_list = << >> THEN [exc |-> "none", val |-> config]
  ELSE LET c == Head(enabled_list)
       IN  IF hasattr_channels(config, c)
             THEN IF c \in DOMAIN config.v[K_channels].v
                    THEN EnableChannels(SetPath(config, ChannelEnabled(c), JBool(TRUE)),
                                        Tail(enabled_list))
                    ELSE [exc |-> "AttributeError", val |-> config]
             ELSE EnableChannels(config, Tail(enabled_list))

\* config with path set to JSON text `value` when the value is truthy
SetIf(config, path, value) ==
  IF value # NoText THEN SetPath(config, path, JStr(value)) ELSE config

\* a slip: the later Groq alias is asked first
ProviderAndAgentOverrides_later_alias(env, config) ==
  LET c1 == SetIf(config, ProviderKey(K_groq),
                  Or(Getenv(env, "LITELLM_GROQ_API_KEY"), Getenv(env, "GROQ_API_KEY")))
      c2 == SetIf(c1, ProviderKey(K_openrouter), Getenv(env, "OPENROUTER_API_KEY"))
      c3 == SetIf(c2, ProviderKey(K_openai), Getenv(env, "OPENAI_API_KEY"))
      c4 == SetIf(c3, ProviderKey(K_anthropic), Getenv(env, "ANTHROPIC_API_KEY"))
      c5 == SetIf(c4, ProviderKey(K_deepseek), Getenv(env, "DEEPSEEK_API_KEY"))
      c6 == SetIf(c5, ProviderKey(K_gemini), Getenv(env, "GEMINI_API_KEY"))
      c7 == SetIf(c6, ProviderKey(K_zhipu),
                  Or(Getenv(env, "ZHIPU_API_KEY"), Getenv(env, "ZHIPUAI_API_KEY")))
      c8 == SetIf(c7, AgentModel, Or(Getenv(env, "AGENT_MODEL"), Getenv(env, "MODEL")))
  IN  SetIf(c8, AgentWorkspace, Getenv(env, "AGENT_WORKSPACE"))

\* loader.py lines 79-103: provider keys and agent defaults
ProviderAndAgentOverrides(env, config) ==
  LET c1 == SetIf(config, ProviderKey(K_groq),
                  Or(Getenv(env, "GROQ_API_KEY"), Getenv(env, "LITELLM_GROQ_API_KEY")))
      c2 == SetIf(c1, ProviderKey(K_openrouter), Getenv(env, "OPENROUTER_API_KEY"))
      c3 == SetIf(c2, ProviderKey(K_openai), Getenv(env, "OPENAI_API_KEY"))
      c4 == SetIf(c3, ProviderKey(K_anthropic), Getenv(env, "ANTHROPIC_API_KEY"))
      c5 == SetIf(c4, ProviderKey(K_deepseek), Getenv(env, "DEEPSEEK_API_KEY"))
      c6 == SetIf(c5, ProviderKey(K_gemini), Getenv(env, "GEMINI_API_KEY"))
      c7 == SetIf(c6, ProviderKey(K_zhipu),
                  Or(Getenv(env, "ZHIPU_API_KEY"), Getenv(env, "ZHIPUAI_API_KEY")))
      c8 == SetIf(c7, AgentModel, Or(Getenv(env, "AGENT_MODEL"), Getenv(env, "MODEL")))
  IN  SetIf(c8, AgentWorkspace, Getenv(env, "AGENT_WORKSPACE"))

\* a slip: the token is written and the channel is not enabled
ChannelOverrides_token_only(env, config) ==
  LET c1 == SetIf(config, TelegramToken, Getenv(env, "TELEGRAM_TOKEN"))
      allowed == Or(Getenv(env, "ALLOWED_USERS"), Getenv(env, "TELEGRAM_ALLOWED_USERS"))
      c2 == IF allowed # NoText
              THEN SetPath(c1, TelegramAllowFrom, StrippedList(allowed))
              ELSE c1
      c3 == IF Lower(Getenv(env, "WHATSAPP_ENABLED")) = << "t","r","u","e" >>
              THEN SetPath(c2, ChannelEnabled(K_whatsapp), JBool(TRUE))
              ELSE c2
      wa_allow == Getenv(env, "WHATSAPP_ALLOWED_NUMBERS")
  IN  IF wa_allow # NoText
        THEN SetPath(c3, WhatsappAllowFrom, StrippedList(wa_allow))
        ELSE c3

\* loader.py lines 105-119: telegram and whatsapp
ChannelOverrides(env, config) ==
  LET token == Getenv(env, "TELEGRAM_TOKEN")
      c1 == IF token # NoText
              THEN SetPath(SetPath(config, TelegramToken, JStr(token)),
                           ChannelEnabled(K_telegram), JBool(TRUE))
              ELSE config
      allowed == Or(Getenv(env, "ALLOWED_USERS"), Getenv(env, "TELEGRAM_ALLOWED_USERS"))
      c2 == IF allowed # NoText
              THEN SetPath(c1, TelegramAllowFrom, StrippedList(allowed))
              ELSE c1
      c3 == IF Lower(Getenv(env, "WHATSAPP_ENABLED")) = << "t","r","u","e" >>
              THEN SetPath(c2, ChannelEnabled(K_whatsapp), JBool(TRUE))
              ELSE c2
      wa_allow == Getenv(env, "WHATSAPP_ALLOWED_NUMBERS")
  IN  IF wa_allow # NoText
        THEN SetPath(c3, WhatsappAllowFrom, StrippedList(wa_allow))
        ELSE c3

\* loader.py _apply_env_overrides: the Config as mutated in place, and the
\* exception that escaped ("none": the Config was returned)
_apply_env_overrides(env, config) ==
  LET c1 == ChannelOverrides(env, ProviderAndAgentOverrides(env, config))
      channels_env == Getenv(env, "CHANNELS")
      r == IF channels_env # NoText
             THEN EnableChannels(c1, LoweredNames(channels_env))
             ELSE [exc |-> "none", val |-> c1]
  IN  IF r.exc # "none" THEN r
      ELSE [exc |-> "none",
            val |-> SetIf(r.val, WebSearchKey, Getenv(env, "ALEXZO_API_KEY"))]

(***************************************************************************)
(* Sources: the text of NANOBOT_CONFIG and of the candidate files          *)
(***************************************************************************)
\* a text is empty, not JSON, or the JSON text of a document
Text(kind, doc) == [kind |-> kind, doc |-> doc]

Unset == Text("unset", JNull)

EmptyText == Text("empty", JNull)

Garbage == Text("garbage", JNull)

Json(doc) == Text("json", doc)

\* json.loads / json.load
json_loads(text) ==
  IF text.kind = "json" THEN Returned(text.doc) ELSE Raised("JSONDecodeError")

\* json.dump: the JSON text of a document
json_dump(doc) == Json(doc)

\* loader.py lines 44-46 and 63-65: parse, migrate, normalize, validate; the
\* first exception raised escapes
LoadDocument(text) ==
  LET parsed == json_loads(text)
  IN  IF parsed.exc # "none" THEN parsed
      ELSE LET moved == _migrate_config(parsed.val)
           IN  IF moved.exc # "none" THEN moved
               ELSE model_validate(convert_keys(moved.val))

\* loader.py lines 47 and 67: except (json.JSONDecodeError, ValueError)
Caught(e) == e \in {"JSONDecodeError", "ValidationError"}

\* a file of the file system
File(exists, readable, text) == [exists |-> exists, readable |-> readable, text |-> text]

Missing == File(FALSE, FALSE, EmptyText)

Readable(text) == File(TRUE, TRUE, text)

\* exists, and open() raises PermissionError
Unreadable == File(TRUE, FALSE, EmptyText)

\* Python's None
None == [t |-> "None", v |-> 0]

\* config_path = NoPath: no path given
NoPath == "None"

\* get_config_path() and Path("config.json")
HomePath == "~/.nanobot/config.json"

CwdPath == "config.json"

(***************************************************************************)
(* BigQueryTool (agent/tools/bigquery.py).  A returned text is the         *)
(* sequence of its words (the text split at its spaces).                   *)
(***************************************************************************)
\* Python truthiness of an argument value
Truthy(x) ==
  CASE x.t \in {"string", "array", "object"} -> x.v # << >>
    [] x.t = "number" -> x.v # 0
    [] x.t = "bool" -> x.v
    [] OTHER -> FALSE

\* kwargs.get(n)
KwGet(kwargs, n) == IF n \in DOMAIN kwargs THEN kwargs[n] ELSE JNull

\* f"Error: {str(e)}"
ErrorText(message) == << "Error:", message >>

\* bigquery.py _get_client: the cached client, or a new one; the key file may
\* be missing, the import or the credentials may fail (setup names which)
_get_client(client, key, setup) ==
  IF client # "None" THEN [exc |-> "none", client |-> client]
  ELSE IF ~key THEN [exc |-> "FileNotFoundError", client |-> client]
  ELSE IF setup = "created" THEN [exc |-> "none", client |-> "client"]
  ELSE [exc |-> setup, client |-> client]

\* bigquery.py execute, lines 66-101: the branch of the operation, run on a
\* client; backend names how the library call behaves ("ok", "raises", or
\* "row_errors": insert_rows_json returns a non-empty list)
Dispatch(operation, kwargs, backend) ==
  CASE operation = "query" ->
         IF ~Truthy(KwGet(kwargs, "query"))
           THEN << "Error:", "'query'", "parameter", "is", "required", "for",
                   "query", "operation" >>
           ELSE IF backend = "raises" THEN ErrorText("backend failure")
           ELSE << "[rows]" >>
    [] operation = "insert" ->
         IF ~(/\ Truthy(KwGet(kwargs, "dataset_id"))
              /\ Truthy(KwGet(kwargs, "table_id"))
              /\ Truthy(KwGet(kwargs, "rows")))
           THEN << "Error:", "'dataset_id',", "'table_id',", "and", "'rows'", "are",
                   "required", "for", "insert", "operation" >>
           ELSE IF backend = "raises" THEN ErrorText("backend failure")
           ELSE IF backend = "row_errors"
             THEN << "Error", "inserting", "rows:", "[errors]" >>
             ELSE << "Success:", "Rows", "inserted" >>
    [] operation = "list_datasets" ->
         IF backend = "raises" THEN ErrorText("backend failure")
         ELSE << "[datasets]" >>
    [] operation = "list_tables" ->
         IF ~Truthy(KwGet(kwargs, "dataset_id"))
           THEN << "Error:", "'dataset_id'", "is", "required", "for", "list_tables",
                   "operation" >>
           ELSE IF backend = "raises" THEN ErrorText("backend failure")
           ELSE << "[tables]" >>
    [] OTHER -> << "Error:", "Unknown", "operation", "'" \o operation \o "'" >>

\* bigquery.py execute: what it returns or raises, and self.client after it;
\* `except Exception` turns every exception of the try block, those of
\* _get_client included, into the text "Error: " + str(e)
execute(client, key, operation, kwargs, setup, backend) ==
  LET got == _get_client(client, key, setup)
  IN  IF got.exc # "none"
        THEN [exc |-> "none", text |-> ErrorText(got.exc), client |-> got.client]
        ELSE [exc |-> "none", text |-> Dispatch(operation, kwargs, backend),
              client |-> got.client]

(***************************************************************************)
(* State                                                                   *)
(***************************************************************************)
VARIABLES
  kpc,            \* key round trip: position
  name,           \* key round trip: the input key
  k,              \* snake_to_camel(name)
  snake,          \* camel_to_snake(k)
  back,           \* snake_to_camel(snake)
  mpc,            \* migration: position
  data,           \* migration: the raw document handed to _migrate_config
  migrated,       \* migration: what _migrate_config returned or raised
  environ,        \* os.environ without NANOBOT_CONFIG: names to text
  nanobot_config, \* the text of NANOBOT_CONFIG (Unset when not set)
  fs,             \* the files at the candidate paths
  config_path,    \* load_config's and save_config's argument (NoPath or a path)
  cfg,            \* the Config handed to save_config (None when nothing is saved)
  pc,             \* load_config / save_config: position
  config,         \* load_config's local `config`
  paths,          \* load_config: the candidate paths not yet tried
  stdout,         \* the sources a warning was printed for, in order
  outcome,        \* how load_config ended: what it raised, and where
  bq_client,      \* BigQueryTool.client ("None" until one is created)
  key_exists,     \* whether ~/.nanobot/bigquery-key.json exists
  bq_call,        \* the last call of execute: its arguments, and how the
                  \* library behaved during it
  bq_result,      \* what the last call of execute returned or raised
  bq_calls        \* calls of execute so far

keyVars == << kpc, name, k, snake, back >>

migrateVars == << mpc, data, migrated >>

worldVars == << environ, nanobot_config, config_path, cfg >>

loadVars == << environ, nanobot_config, fs, config_path, cfg, pc, config, paths,
               stdout, outcome >>

bqVars == << bq_client, key_exists, bq_call, bq_result, bq_calls >>

vars == << kpc, name, k, snake, back, mpc, data, migrated, environ,
           nanobot_config, fs, config_path, cfg, pc, config, paths, stdout,
           outcome, bq_client, key_exists, bq_call, bq_result, bq_calls >>

\* the parts of the state a specification does not use stay idle
KeyIdle ==
  /\ kpc = "idle" /\ name = << >> /\ k = << >> /\ snake = << >> /\ back = << >>

MigrateIdle == mpc = "idle" /\ data = JNull /\ migrated = Returned(JNull)

Running == [status |-> "running", exc |-> "none", at |-> "none"]

LoadIdle ==
  /\ environ = << >> /\ nanobot_config = Unset
  /\ fs = [p \in {HomePath, CwdPath} |-> Missing]
  /\ config_path = NoPath /\ cfg = None
  /\ pc = "idle" /\ config = None /\ paths = << >> /\ stdout = << >>
  /\ outcome = Running

NoCall == [operation |-> "", kwargs |-> << >>, setup |-> "none", backend |-> "none",
           had_client |-> FALSE]

NoResult == [exc |-> "none", text |-> << >>]

BqIdle ==
  /\ bq_client = "None" /\ key_exists = FALSE /\ bq_call = NoCall
  /\ bq_result = NoResult /\ bq_calls = 0

(***************************************************************************)
(* load_config, save_config                                                *)
(***************************************************************************)
ExplicitPath == "/etc/nanobot.json"

\* load_config ended by raising e while at position `at`
RaisedAt(e, at) == [status |-> "raised", exc |-> e, at |-> at]

ReturnedConfig == [status |-> "returned", exc |-> "none", at |-> "none"]

\* loader.py lines 38-48: the inline NANOBOT_CONFIG document
TryInline ==
  /\ pc = "inline"
  /\ IF nanobot_config.kind \in {"unset", "empty"}
       THEN /\ pc' = "paths"
            /\ UNCHANGED << config, stdout, outcome >>
       ELSE LET r == LoadDocument(nanobot_config)
            IN  IF r.exc = "none"
                  THEN /\ config' = r.val
                       /\ pc' = "paths"
                       /\ UNCHANGED << stdout, outcome >>
                  ELSE IF Caught(r.exc)
                    THEN /\ stdout' = Append(stdout, "NANOBOT_CONFIG")
                         /\ pc' = "paths"
                         /\ UNCHANGED << config, outcome >>
                    ELSE /\ outcome' = RaisedAt(r.exc, "inline")
                         /\ pc' = "done"
                         /\ UNCHANGED << config, stdout >>
  /\ UNCHANGED << worldVars, fs, paths, keyVars, migrateVars, bqVars >>

\* loader.py lines 51-57: the candidate list, built only when no Config yet
BuildPaths ==
  /\ pc = "paths"
  /\ IF config = None
       THEN /\ paths' = IF config_path # NoPath
                          THEN << config_path >>
                          ELSE << HomePath, CwdPath >>
            /\ pc' = "file"
       ELSE /\ pc' = "fallback"
            /\ UNCHANGED paths
  /\ UNCHANGED << worldVars, fs, config, stdout, outcome, keyVars, migrateVars, bqVars >>

\* where the loop over the candidates goes after the first of `rest` is done
AfterCandidate(rest) == IF rest = << >> THEN "fallback" ELSE "file"

\* loader.py lines 59-69: one iteration of the loop over the candidates
TryPath ==
  /\ pc = "file"
  /\ LET path == Head(paths)
         file == fs[path]
     IN  IF ~file.exists
           THEN /\ paths' = Tail(paths)
                /\ pc' = AfterCandidate(Tail(paths))
                /\ UNCHANGED << config, stdout, outcome >>
           ELSE IF ~file.readable
             THEN /\ outcome' = RaisedAt("PermissionError", "file")
                  /\ pc' = "done"
                  /\ UNCHANGED << config, stdout, paths >>
             ELSE LET r == LoadDocument(file.text)
                  IN  IF r.exc = "none"
                        THEN /\ config' = r.val
                             /\ pc' = "fallback"
                             /\ UNCHANGED << stdout, outcome, paths >>
                        ELSE IF Caught(r.exc)
                          THEN /\ stdout' = Append(stdout, path)
                               /\ paths' = Tail(paths)
                               /\ pc' = AfterCandidate(Tail(paths))
                               /\ UNCHANGED << config, outcome >>
                          ELSE /\ outcome' = RaisedAt(r.exc, "file")
                               /\ pc' = "done"
                               /\ UNCHANGED << config, stdout, paths >>
  /\ UNCHANGED << worldVars, fs, keyVars, migrateVars, bqVars >>

\* loader.py lines 71-72: Config() when no source gave one
Fallback ==
  /\ pc = "fallback"
  /\ config' = IF config = None THEN DefaultConfig ELSE config
  /\ pc' = "overrides"
  /\ UNCHANGED << worldVars, fs, paths, stdout, outcome, keyVars, migrateVars, bqVars >>

\* loader.py line 74: return _apply_env_overrides(config)
ApplyEnvOverrides ==
  /\ pc = "overrides"
  /\ LET r == _apply_env_overrides(environ, config)
     IN  /\ config' = r.val
         /\ outcome' = IF r.exc = "none" THEN ReturnedConfig
                       ELSE RaisedAt(r.exc, "overrides")
  /\ pc' = "done"
  /\ UNCHANGED << worldVars, fs, paths, stdout, keyVars, migrateVars, bqVars >>

\* loader.py save_config: the dump, converted to the wire keys, written as
\* JSON to config_path or the default path (the write succeeds: a failing
\* write raises to the caller and leaves nothing to load)
SaveConfig ==
  /\ pc = "save"
  /\ LET path == IF config_path # NoPath THEN config_path ELSE HomePath
     IN  fs' = [fs EXCEPT ![path] =
                  Readable(json_dump(convert_to_camel(model_dump(cfg))))]
  /\ pc' = "inline"
  /\ UNCHANGED << worldVars, config, paths, stdout, outcome, keyVars, migrateVars, bqVars >>

NextLoad == TryInline \/ BuildPaths \/ TryPath \/ Fallback \/ ApplyEnvOverrides

\* text of the environment
T_x == << "x" >>

T_y == << "y" >>

T_abc123 == << "a","b","c","1","2","3" >>

\* the environment with one more variable set
Setenv(env, n, value) ==
  [x \in (DOMAIN env) \cup {n} |-> IF x = n THEN value ELSE env[x]]

\* documents in the wire format
AgentDoc(model) ==
  MkObj({<< K_agents, MkObj({<< K_defaults, MkObj({<< K_model, JStr(model) >>}) >>}) >>})

\* a document of the old layout, naming its source in agents.defaults.model
LegacyDoc(model) ==
  DictSet(AgentDoc(model), K_tools,
          MkObj({<< K_exec, MkObj({<< K_restrictToWorkspace, JBool(TRUE) >>}) >>}))

\* a document that sets the telegram channel
TelegramDoc(model, token, enabled) ==
  DictSet(AgentDoc(model), K_channels,
          MkObj({<< K_telegram,
                    MkObj({<< K_token, JStr(token) >>,
                           << K_enabled, JBool(enabled) >>,
                           << K_allowFrom, JList(<< JStr(<< "u" >>) >>) >>}) >>}))

\* documents that parse and are no configuration
ArrayDoc == JList(<< >>)

ToolsNumberDoc == MkObj({<< K_tools, JNum(5) >>})

ExecNumberDoc == MkObj({<< K_tools, MkObj({<< K_exec, JNum(5) >>}) >>})

ChannelsNumberDoc == MkObj({<< K_channels, JNum(5) >>})

\* what NANOBOT_CONFIG may hold
InlineTexts ==
  {Unset, EmptyText, Garbage, Json(ArrayDoc), Json(ToolsNumberDoc),
   Json(ExecNumberDoc), Json(ChannelsNumberDoc),
   Json(TelegramDoc(<< "i" >>, << "t" >>, FALSE))}

\* what may be at a candidate path; a valid file names itself
FileStates(model) ==
  {Missing, Unreadable, Readable(EmptyText), Readable(Garbage),
   Readable(Json(ArrayDoc)), Readable(Json(ChannelsNumberDoc)),
   Readable(Json(LegacyDoc(model)))}

\* the environments of the source-resolution runs
LoadEnvs ==
  {<< >>, Setenv(<< >>, "TELEGRAM_TOKEN", T_abc123),
   Setenv(<< >>, "CHANNELS", << "_","_","i","n","i","t","_","_" >>)}

StartLoad ==
  /\ cfg = None
  /\ pc = "inline" /\ config = None /\ paths = << >> /\ stdout = << >>
  /\ outcome = Running

\* load_config(config_path) with every state of the sources
Init ==
  /\ KeyIdle /\ MigrateIdle /\ BqIdle
  /\ StartLoad
  /\ environ \in LoadEnvs
  /\ nanobot_config \in InlineTexts
  /\ config_path \in {NoPath, ExplicitPath}
  /\ \E home \in FileStates(<< "h" >>), cwd \in FileStates(<< "c" >>) :
       IF config_path = NoPath
         THEN fs = [p \in {HomePath, CwdPath} |->
                      IF p = HomePath THEN home ELSE cwd]
         ELSE \E explicit \in FileStates(<< "e" >>) :
                fs = [p \in {ExplicitPath, HomePath, CwdPath} |->
                        IF p = ExplicitPath THEN explicit
                        ELSE IF p = HomePath THEN home ELSE cwd]

Spec == Init /\ [][NextLoad]_vars

\* values an override variable is given: set to text, or set and empty
EnvBindings ==
  {<< "GROQ_API_KEY", T_x >>, << "GROQ_API_KEY", NoText >>,
   << "LITELLM_GROQ_API_KEY", T_y >>,
   << "OPENROUTER_API_KEY", T_x >>, << "OPENAI_API_KEY", T_x >>,
   << "ANTHROPIC_API_KEY", T_x >>, << "DEEPSEEK_API_KEY", T_x >>,
   << "GEMINI_API_KEY", T_x >>,
   << "ZHIPU_API_KEY", T_x >>, << "ZHIPU_API_KEY", NoText >>,
   << "ZHIPUAI_API_KEY", T_y >>,
   << "AGENT_MODEL", T_x >>, << "AGENT_MODEL", NoText >>, << "MODEL", T_y >>,
   << "AGENT_WORKSPACE", T_x >>, << "AGENT_ENGINE", T_x >>,
   << "TELEGRAM_TOKEN", T_abc123 >>, << "TELEGRAM_TOKEN", NoText >>,
   << "ALLOWED_USERS", << "a",","," ","b" >> >>, << "ALLOWED_USERS", NoText >>,
   << "TELEGRAM_ALLOWED_USERS", T_y >>,
   << "WHATSAPP_ENABLED", << "T","r","u","e" >> >>, << "WHATSAPP_ENABLED", << "n","o" >> >>,
   << "WHATSAPP_ALLOWED_NUMBERS", << "1"," ",",","2" >> >>,
   << "CHANNELS", << "t","e","l","e","g","r","a","m" >> >>, << "CHANNELS", << " ","W","h","a","t","s","A","p","p"," ",",",",","n","o","p","e" >> >>, << "CHANNELS", << "t","e","l","e","g","r","a","m",",","_","_","i","n","i","t","_","_" >> >>,
   << "ALEXZO_API_KEY", T_x >>}

\* the environments that set at most n override variables
RECURSIVE EnvsUpTo(_)
EnvsUpTo(n) ==
  IF n = 0 THEN {<< >>}
  ELSE LET fewer == EnvsUpTo(n - 1)
       IN  fewer \cup {Setenv(env, b[1], b[2]) : env \in fewer, b \in EnvBindings}

InlineTelegram == Json(TelegramDoc(<< "i" >>, << "t" >>, TRUE))

HomeTelegram == Readable(Json(TelegramDoc(<< "h" >>, << "s" >>, FALSE)))

\* load_config() under every environment of at most MaxEnvVars override
\* variables, the Config coming from NANOBOT_CONFIG, from a file or from the
\* defaults
InitOverrides ==
  /\ KeyIdle /\ MigrateIdle /\ BqIdle
  /\ StartLoad
  /\ environ \in EnvsUpTo(MaxEnvVars)
  /\ nanobot_config \in {Unset, InlineTelegram}
  /\ config_path = NoPath
  /\ \E home \in {Missing, HomeTelegram} :
       fs = [p \in {HomePath, CwdPath} |-> IF p = HomePath THEN home ELSE Missing]

SpecOverrides == InitOverrides /\ [][NextLoad]_vars

(***************************************************************************)
(* Claims about load_config                                                *)
(***************************************************************************)
\* the source parses, migrates, normalizes and validates
Usable(text) == LoadDocument(text).exc = "none"

InlineUsable == nanobot_config.kind \notin {"unset", "empty"} /\ Usable(nanobot_config)

FileUsable(path) == fs[path].exists /\ fs[path].readable /\ Usable(fs[path].text)

Candidates == IF config_path # NoPath THEN << config_path >> ELSE << HomePath, CwdPath >>

\* the Config of the first usable file of the list, the defaults when none is
RECURSIVE FirstUsableFile(_)
FirstUsableFile(list) ==
  IF list = << >> THEN DefaultConfig
  ELSE IF FileUsable(Head(list)) THEN LoadDocument(fs[Head(list)].text).val
  ELSE FirstUsableFile(Tail(list))

\* the Config the precedence order names, before the overrides
ClaimedConfig ==
  IF InlineUsable THEN LoadDocument(nanobot_config).val ELSE FirstUsableFile(Candidates)

\* load_config got past source resolution
Resolved == pc = "overrides" \/ (pc = "done" /\ outcome.at \notin {"inline", "file"})

\* _apply_env_overrides has run (to its end or to an exception)
OverridesRan == pc = "done" /\ outcome.at \notin {"inline", "file"}

\* C1 as stated: load_config never raises, whatever the sources and the
\* override variables hold
C1_LoadNeverRaises == pc = "done" => outcome.status = "returned"

\* C2 as stated: the sources are tried in order, a source that is missing or
\* fails to parse or validate is skipped, and the first usable source (else the
\* defaults) gives the Config the overrides are applied to
C2_FirstUsableSourceWins ==
  /\ pc = "overrides" => config = ClaimedConfig
  /\ pc = "done" => Resolved

\* no source makes source resolution raise: every file that exists can be
\* read, and every text loads or fails with an exception load_config catches
NoSourceCrashes ==
  /\ nanobot_config.kind \in {"unset", "empty"}
       \/ LoadDocument(nanobot_config).exc = "none"
       \/ Caught(LoadDocument(nanobot_config).exc)
  /\ \A p \in DOMAIN fs :
       fs[p].exists =>
         /\ fs[p].readable
         /\ LoadDocument(fs[p].text).exc = "none" \/ Caught(LoadDocument(fs[p].text).exc)

\* the precedence order itself, when no source makes resolution raise
SourceOrderWhenNoSourceCrashes == NoSourceCrashes => C2_FirstUsableSourceWins

\* a path of the list s
InSeq(x, s) == \E i \in DOMAIN s : s[i] = x

\* C3 as stated: with an explicit path the default paths are never consulted,
\* and when neither NANOBOT_CONFIG nor the explicit file is usable the result
\* is the all-defaults Config
C3_ExplicitExcludesDefaults ==
  config_path # NoPath =>
    /\ ~InSeq(HomePath, paths) /\ ~InSeq(CwdPath, paths)
    /\ (~InlineUsable /\ ~FileUsable(config_path)) =>
         /\ pc = "overrides" => config = DefaultConfig
         /\ pc = "done" => Resolved

\* the exclusion itself, when no source makes resolution raise
ExplicitExcludesDefaultsWhenNoSourceCrashes ==
  NoSourceCrashes => C3_ExplicitExcludesDefaults

\* C6: whenever TELEGRAM_TOKEN is set and not empty, the Config load_config
\* returns has that token and the telegram channel enabled, whichever source
\* gave the Config
C6_TelegramTokenOverrides ==
  (pc = "done" /\ outcome.status = "returned"
     /\ Getenv(environ, "TELEGRAM_TOKEN") # NoText) =>
    /\ GetPath(config, TelegramToken) = JStr(environ["TELEGRAM_TOKEN"])
    /\ GetPath(config, ChannelEnabled(K_telegram)) = JBool(TRUE)

\* the file, which disables telegram under another token, won and was overridden
C6_Witness ==
  /\ pc = "done" /\ outcome.status = "returned"
  /\ nanobot_config = Unset /\ fs[HomePath] = HomeTelegram
  /\ "TELEGRAM_TOKEN" \in DOMAIN environ /\ environ["TELEGRAM_TOKEN"] = T_abc123
  /\ GetPath(config, AgentModel) = JStr(<< "h" >>)
  /\ GetPath(config, TelegramToken) = JStr(T_abc123)
  /\ GetPath(config, ChannelEnabled(K_telegram)) = JBool(TRUE)

\* the field holds the first of the two aliases that is set and not empty
FirstAliasWritten(field, first, second) ==
  /\ Getenv(environ, first) # NoText => field = environ[first]
  /\ (Getenv(environ, first) = NoText /\ Getenv(environ, second) # NoText) =>
       field = environ[second]

\* the text of each entry of a JSON list of text
TextsOf(list) == [i \in DOMAIN list.v |-> list.v[i].v]

\* the comma-separated text as the list the code writes
AsList(text) == SplitStrip(text)

\* C7: each target with two aliases is written from the first alias that is
\* set and not empty, the later alias ignored
C7_FirstAliasWins ==
  OverridesRan =>
    /\ FirstAliasWritten(GetPath(config, ProviderKey(K_groq)).v,
                         "GROQ_API_KEY", "LITELLM_GROQ_API_KEY")
    /\ FirstAliasWritten(GetPath(config, ProviderKey(K_zhipu)).v,
                         "ZHIPU_API_KEY", "ZHIPUAI_API_KEY")
    /\ FirstAliasWritten(GetPath(config, AgentModel).v, "AGENT_MODEL", "MODEL")
    /\ Getenv(environ, "ALLOWED_USERS") # NoText =>
         TextsOf(GetPath(config, TelegramAllowFrom)) = AsList(environ["ALLOWED_USERS"])
    /\ (Getenv(environ, "ALLOWED_USERS") = NoText
          /\ Getenv(environ, "TELEGRAM_ALLOWED_USERS") # NoText) =>
         TextsOf(GetPath(config, TelegramAllowFrom))
           = AsList(environ["TELEGRAM_ALLOWED_USERS"])

\* GROQ_API_KEY=x and LITELLM_GROQ_API_KEY=y gave the Groq key x
C7_Witness ==
  /\ pc = "done" /\ outcome.status = "returned"
  /\ DOMAIN environ = {"GROQ_API_KEY", "LITELLM_GROQ_API_KEY"}
  /\ environ["GROQ_API_KEY"] = T_x /\ environ["LITELLM_GROQ_API_KEY"] = T_y
  /\ GetPath(config, ProviderKey(K_groq)) = JStr(T_x)

\* the environment without the variable n
Unsetenv(env, n) == [x \in (DOMAIN env) \ {n} |-> env[x]]

\* the channel sections of the schema that CHANNELS lists
ListedSections ==
  LET names == LoweredNames(Getenv(environ, "CHANNELS"))
  IN  {c \in DOMAIN DefaultConfig.v[K_channels].v : InSeq(c, names)}

\* cfg with every section of the set enabled
RECURSIVE WithEnabled(_, _)
WithEnabled(c, sections) ==
  IF sections = {} THEN c
  ELSE LET one == CHOOSE x \in sections : TRUE
       IN  WithEnabled(SetPath(c, ChannelEnabled(one), JBool(TRUE)), sections \ {one})

\* what C8 says of the override step when CHANNELS is set: it returns, and
\* its Config is that of the other overrides with exactly the listed
\* sections enabled in addition
ChannelsStepAsClaimed ==
  (pc = "overrides" /\ Getenv(environ, "CHANNELS") # NoText) =>
    /\ outcome'.status = "returned"
    /\ config' = WithEnabled(
                   _apply_env_overrides(Unsetenv(environ, "CHANNELS"), config).val,
                   ListedSections)

\* C8 as stated: CHANNELS enables exactly the listed channel sections, and
\* every other listed name is ignored without raising or changing a field
C8_ChannelsEnablesListedSections == [][ChannelsStepAsClaimed]_vars

\* no listed name is an attribute of the channels object other than a section
NoListedAttribute ==
  \A i \in DOMAIN LoweredNames(Getenv(environ, "CHANNELS")) :
    LoweredNames(Getenv(environ, "CHANNELS"))[i] \notin ObjectAttributes

\* the enabling itself, when the list names no such attribute
ChannelsEnablingWhenNoAttributeListed ==
  [][NoListedAttribute => ChannelsStepAsClaimed]_vars

(***************************************************************************)
(* save_config(cfg, path), then load_config(path)                          *)
(***************************************************************************)
\* Configs handed to save_config: the defaults, and Configs with fields set
SavedConfigs ==
  {DefaultConfig,
   SetPath(DefaultConfig, ProviderKey(K_groq), JStr(<< "g" >>)),
   SetPath(DefaultConfig, << K_tools, S_restrict_to_workspace >>, JBool(TRUE)),
   SetPath(SetPath(DefaultConfig, TelegramToken, JStr(<< "t" >>)),
           TelegramAllowFrom, JList(<< JStr(<< "u" >>), JStr(<< "v" >>) >>)),
   SetPath(SetPath(DefaultConfig, ChannelEnabled(K_whatsapp), JBool(TRUE)),
           AgentModel, JStr(<< "m","1" >>)),
   SetPath(SetPath(DefaultConfig, WebSearchKey, JStr(<< "k" >>)),
           << K_tools, K_exec, K_timeout >>, JNum(30))}

InitSave ==
  /\ KeyIdle /\ MigrateIdle /\ BqIdle
  /\ cfg \in SavedConfigs
  /\ pc = "save" /\ config = None /\ paths = << >> /\ stdout = << >>
  /\ outcome = Running
  /\ environ \in EnvsUpTo(MaxSaveEnvVars)
  /\ nanobot_config \in {Unset, EmptyText, Garbage, InlineTelegram}
  /\ config_path = ExplicitPath
  /\ fs = [p \in {ExplicitPath, HomePath, CwdPath} |-> Missing]

NextSave == SaveConfig \/ NextLoad

SpecSave == InitSave /\ [][NextSave]_vars

\* C4 as stated: the Config loaded back equals the saved one in every field,
\* whatever the environment holds at the time of the load
C4_SaveLoadRoundTrip ==
  pc = "done" => (outcome.status = "returned" /\ config = cfg)

\* no document in NANOBOT_CONFIG and no override variable with a value
PlainEnvironment ==
  /\ nanobot_config.kind \in {"unset", "empty", "garbage"}
  /\ \A n \in DOMAIN environ : environ[n] = NoText

\* C4 amended: the Config loaded back equals the saved one in every field
\* when NANOBOT_CONFIG is unset, empty or not JSON and every override
\* variable is unset or empty
C4_SaveLoadRoundTripPlainEnv ==
  (pc = "done" /\ PlainEnvironment) => (outcome.status = "returned" /\ config = cfg)

\* a Config with a token and an allow list was saved and loaded back equal
C4_Witness ==
  /\ pc = "done" /\ outcome.status = "returned" /\ PlainEnvironment
  /\ GetPath(cfg, TelegramToken) = JStr(<< "t" >>)
  /\ fs[ExplicitPath].exists
  /\ S_allow_from \notin DOMAIN fs[ExplicitPath].text.doc.v[K_channels].v[K_telegram].v
  /\ K_allowFrom \in DOMAIN fs[ExplicitPath].text.doc.v[K_channels].v[K_telegram].v
  /\ config = cfg

(***************************************************************************)
(* Calls of BigQueryTool.execute                                           *)
(***************************************************************************)
Operations == {"query", "insert", "list_datasets", "list_tables", "drop"}

\* the argument sets: each parameter absent, empty or given
KwargsSets ==
  {MkObj({<< "query", q >>, << "dataset_id", d >>, << "table_id", t >>,
          << "rows", r >>}).v :
     q \in {Absent, JStr(NoText), JStr(<< "SELECT 1" >>)},
     d \in {Absent, JStr(<< "ds" >>)},
     t \in {Absent, JStr(<< "tbl" >>)},
     r \in {Absent, JList(<< >>), JList(<< EmptyDict >>)}}

\* __init__: no client yet; the key file is there or not
InitBigQuery ==
  /\ KeyIdle /\ MigrateIdle /\ LoadIdle
  /\ bq_client = "None"
  /\ key_exists \in BOOLEAN
  /\ bq_call = NoCall
  /\ bq_result = NoResult
  /\ bq_calls = 0

\* one call of execute(operation, **kwargs)
Execute ==
  /\ bq_calls < MaxCalls
  /\ \E operation \in Operations, kwargs \in KwargsSets,
        setup \in {"created", "ImportError", "ValueError"},
        backend \in {"ok", "raises", "row_errors"} :
       LET r == execute(bq_client, key_exists, operation, kwargs, setup, backend)
       IN  /\ bq_result' = [exc |-> r.exc, text |-> r.text]
           /\ bq_client' = r.client
           /\ bq_call' = [operation |-> operation, kwargs |-> kwargs,
                          setup |-> setup, backend |-> backend,
                          had_client |-> bq_client # "None"]
  /\ bq_calls' = bq_calls + 1
  /\ UNCHANGED << key_exists, keyVars, migrateVars, loadVars >>

NextBigQuery == Execute

SpecBigQuery == InitBigQuery /\ [][NextBigQuery]_vars

\* the text begins with the prefix "Error: "
HasErrorPrefix(text) == Len(text) >= 2 /\ text[1] = "Error:"

\* the last call could not get a client
ClientFailed ==
  ~bq_call.had_client /\ (~key_exists \/ bq_call.setup # "created")

\* a parameter the operation requires was missing or empty
ParameterMissing ==
  \/ bq_call.operation = "query" /\ ~Truthy(KwGet(bq_call.kwargs, "query"))
  \/ bq_call.operation = "list_tables" /\ ~Truthy(KwGet(bq_call.kwargs, "dataset_id"))
  \/ /\ bq_call.operation = "insert"
     /\ \E n \in {"dataset_id", "table_id", "rows"} : ~Truthy(KwGet(bq_call.kwargs, n))

UnknownOperation ==
  bq_call.operation \notin {"query", "insert", "list_datasets", "list_tables"}

\* the library call of the operation was reached
BackendReached == ~ClientFailed /\ ~ParameterMissing /\ ~UnknownOperation

BackendRaised == BackendReached /\ bq_call.backend = "raises"

RowErrors ==
  BackendReached /\ bq_call.operation = "insert" /\ bq_call.backend = "row_errors"

\* C10 as stated: execute never raises, and every failure, row errors of an
\* insert included, comes back as a text that begins with "Error: "
C10_ExecuteReturnsErrorText ==
  bq_calls > 0 =>
    /\ bq_result.exc = "none"
    /\ (ClientFailed \/ ParameterMissing \/ UnknownOperation \/ BackendRaised
          \/ RowErrors) => HasErrorPrefix(bq_result.text)

\* execute never raises, and every failure other than row errors of an insert
\* comes back as a text that begins with "Error: "
ErrorTextExceptRowErrors ==
  bq_calls > 0 =>
    /\ bq_result.exc = "none"
    /\ (ClientFailed \/ ParameterMissing \/ UnknownOperation \/ BackendRaised)
         => HasErrorPrefix(bq_result.text)

(***************************************************************************)
(* Key round trip: toWire, toInternal, toWire                              *)
(***************************************************************************)
KeyAlphabet == {"a", "b", "A", "B", "1", "_"}

RECURSIVE KeysUpTo(_)
KeysUpTo(n) ==
  IF n = 0 THEN {<< >>}
  ELSE LET shorter == KeysUpTo(n - 1)
       IN  shorter \cup {Append(s, c) : s \in shorter, c \in KeyAlphabet}

InitKeys ==
  /\ BqIdle
  /\ MigrateIdle /\ LoadIdle
  /\ kpc = "input"
  /\ name \in KeysUpTo(MaxKeyLen)
  /\ k = << >> /\ snake = << >> /\ back = << >>

ToWire ==
  /\ kpc = "input"
  /\ k' = snake_to_camel(name)
  /\ kpc' = "wire"
  /\ UNCHANGED << name, snake, back, migrateVars, loadVars, bqVars >>

ToInternal ==
  /\ kpc = "wire"
  /\ snake' = camel_to_snake(k)
  /\ kpc' = "internal"
  /\ UNCHANGED << name, k, back, migrateVars, loadVars, bqVars >>

ToWireAgain ==
  /\ kpc = "internal"
  /\ back' = snake_to_camel(snake)
  /\ kpc' = "done"
  /\ UNCHANGED << name, k, snake, migrateVars, loadVars, bqVars >>

NextKeys == ToWire \/ ToInternal \/ ToWireAgain

SpecKeys == InitKeys /\ [][NextKeys]_vars

(***************************************************************************)
(* Migration of one raw document                                           *)
(***************************************************************************)
\* values of tools.exec
ExecValues ==
  {Absent, JNum(5), JNull, JStr(<< "s","h" >>), JStr(K_restrictToWorkspace),
   JList(<< >>), JList(<< JStr(K_restrictToWorkspace) >>)}
  \cup {MkObj({<< K_restrictToWorkspace, legacy >>, << K_timeout, timeout >>}) :
          legacy \in {Absent, JBool(TRUE), JBool(FALSE)},
          timeout \in {Absent, JNum(60)}}

\* values of tools
ToolsValues ==
  {Absent, JNum(5), JNull, JList(<< >>)}
  \cup {MkObj({<< K_restrictToWorkspace, top >>, << K_exec, ex >>}) :
          top \in {Absent, JBool(TRUE), JBool(FALSE)}, ex \in ExecValues}

\* raw documents: any JSON value
MigrateDocs ==
  {JList(<< >>), JNull, JNum(5), JStr(<< "x" >>)}
  \cup {MkObj({<< K_tools, tools >>, << K_channels, channels >>}) :
          tools \in ToolsValues, channels \in {Absent, EmptyDict}}

InitMigrate ==
  /\ BqIdle
  /\ KeyIdle /\ LoadIdle
  /\ mpc = "input"
  /\ data \in MigrateDocs
  /\ migrated = Returned(JNull)

Migrate ==
  /\ mpc = "input"
  /\ migrated' = _migrate_config(data)
  /\ mpc' = "done"
  /\ UNCHANGED << data, keyVars, loadVars, bqVars >>

NextMigrate == Migrate

SpecMigrate == InitMigrate /\ [][NextMigrate]_vars

\* the document has the legacy flag tools.exec.restrictToWorkspace
HasLegacy(d) ==
  /\ d.t = "object" /\ K_tools \in DOMAIN d.v
  /\ d.v[K_tools].t = "object" /\ K_exec \in DOMAIN d.v[K_tools].v
  /\ d.v[K_tools].v[K_exec].t = "object"
  /\ K_restrictToWorkspace \in DOMAIN d.v[K_tools].v[K_exec].v

\* the document has tools.restrictToWorkspace
HasTopLevel(d) ==
  /\ d.t = "object" /\ K_tools \in DOMAIN d.v
  /\ d.v[K_tools].t = "object"
  /\ K_restrictToWorkspace \in DOMAIN d.v[K_tools].v

\* d with its legacy flag moved to the top level of tools
Moved(d) ==
  LET tools == d.v[K_tools]
      exec_cfg == tools.v[K_exec]
  IN  DictSet(d, K_tools,
        DictSet(DictSet(tools, K_exec, DictDel(exec_cfg, K_restrictToWorkspace)),
                K_restrictToWorkspace, exec_cfg.v[K_restrictToWorkspace]))

\* what C9 says of the document the migration returns
MigratedAsClaimed ==
  /\ migrated.exc = "none"
  /\ IF HasLegacy(data) /\ ~HasTopLevel(data)
       THEN /\ migrated.val = Moved(data)
            /\ HasTopLevel(migrated.val) /\ ~HasLegacy(migrated.val)
       ELSE migrated.val = data

\* C9 as stated: on every document, the legacy flag is moved (not copied) to
\* tools.restrictToWorkspace when that is absent, and in every other case the
\* document is returned unchanged
C9_MigrateMovesOrLeaves == mpc = "done" => MigratedAsClaimed

\* tools and tools.exec, where present, are objects of an object document
WellShaped(d) ==
  /\ d.t = "object"
  /\ DictGet(d, K_tools, EmptyDict).t = "object"
  /\ DictGet(DictGet(d, K_tools, EmptyDict), K_exec, EmptyDict).t = "object"

\* the migration rule itself, on documents whose tools and tools.exec are
\* objects
MigrateRuleOnObjects == (mpc = "done" /\ WellShaped(data)) => MigratedAsClaimed

(***************************************************************************)
(* Claims about the key-case conversion                                    *)
(***************************************************************************)
NoUpper(s) == \A i \in DOMAIN s : ~IsUpper(s[i])

StartsUpper(s) == s # << >> /\ IsUpper(s[1])

=============================================================================
